---- MODULE Spec2Model ----
(***************************************************************************)
(* A model of package caller (github.com/balinomad/go-caller).             *)
(*                                                                         *)
(* Strings are sequences of one-character strings, indexed from 1; the Go  *)
(* code indexes from 0, and every index that the code stores or returns    *)
(* (dotIdx, the result of functionNameIndex) is kept 0-based here.         *)
(* filepath.Base is modelled for a platform whose only path separator is   *)
(* '/' (os.IsPathSeparator(c) == (c == '/'), no volume names).             *)
(***************************************************************************)
EXTENDS Integers, Sequences, FiniteSets, TLC

VARIABLES
    stack,  \* the user call stack the runtime reports, innermost frame first
    data,   \* the JSON document handed to UnmarshalJSON
    c,      \* the *callerInfo the program holds: Nil or a record
    ret     \* the operation that ran last, its argument and its result

vars == <<stack, data, c, ret>>

-----------------------------------------------------------------------------
(* Bounds of the model *)

MaxNameLen == 3     \* length of the enumerated qualified function names
MaxFileLen == 2     \* length of the enumerated file paths
MaxPartLen == 2     \* length of the enumerated "package" JSON strings
MaxFuncLen == 1     \* length of the enumerated "function" JSON strings
MaxPrefixLen == 2   \* length of the prefix segments prepended to a name
MaxDepth == 3       \* number of frames of the user call stack
MaxSkip == 3        \* largest skip handed to New

-----------------------------------------------------------------------------
(* Strings *)

Seqs(S, n) == UNION {[1..k -> S] : k \in 0..n}

Min(S) == CHOOSE x \in S : \A y \in S : x <= y
Max(S) == CHOOSE x \in S : \A y \in S : x >= y

\* s[from:] with a 0-based from
SliceFrom(s, from) == SubSeq(s, from + 1, Len(s))

\* s[:to] with a 0-based, exclusive to
SliceTo(s, to) == SubSeq(s, 1, to)

\* strings.IndexByte: 0-based index of the first ch in s, or -1
IndexByte(s, ch) ==
    LET I == {i \in 1..Len(s) : s[i] = ch}
    IN  IF I = {} THEN -1 ELSE Min(I) - 1

\* strings.LastIndexByte: 0-based index of the last ch in s, or -1
LastIndexByte(s, ch) ==
    LET I == {i \in 1..Len(s) : s[i] = ch}
    IN  IF I = {} THEN -1 ELSE Max(I) - 1

Digits == <<"0", "1", "2", "3", "4", "5", "6", "7", "8", "9">>

\* strconv.Itoa
RECURSIVE Itoa(_)
Itoa(n) ==
    IF n < 0 THEN <<"-">> \o Itoa(0 - n)
    ELSE IF n < 10 THEN <<Digits[n + 1]>>
    ELSE Itoa(n \div 10) \o <<Digits[(n % 10) + 1]>>

\* filepath.Base, first loop: strip the trailing slashes
RECURSIVE StripTrailingSlashes(_)
StripTrailingSlashes(path) ==
    IF Len(path) > 0 /\ path[Len(path)] = "/"
    THEN StripTrailingSlashes(SubSeq(path, 1, Len(path) - 1))
    ELSE path

\* filepath.Base, second loop: 0-based index of the last slash, or -1
RECURSIVE LastElementStart(_, _)
LastElementStart(path, i) ==
    IF i >= 0 /\ path[i + 1] # "/" THEN LastElementStart(path, i - 1) ELSE i

\* filepath.Base
Base(path) ==
    IF path = <<>> THEN <<".">>
    ELSE LET stripped == StripTrailingSlashes(path)
             i == LastElementStart(stripped, Len(stripped) - 1)
             last == IF i >= 0 THEN SliceFrom(stripped, i + 1) ELSE stripped
         IN  IF last = <<>> THEN <<"/">> ELSE last

-----------------------------------------------------------------------------
(* The record and the parser *)

MaxUint16 == 65535

Nil == [nil |-> TRUE]

\* skipAdjust is the number of stack frames to skip
skipAdjust == 2

\* functionNameIndex with the base taken after the first slash
functionNameIndex_firstSlash(name) ==
    IF name = <<>> THEN -1
    ELSE LET lastSlash == IndexByte(name, "/") + 1
             base == IF lastSlash > 0 THEN SliceFrom(name, lastSlash) ELSE name
             firstDot == IndexByte(base, ".")
         IN  IF firstDot # -1 THEN lastSlash + firstDot ELSE -1

\* functionNameIndex searching the whole name for the first dot
functionNameIndex_wholeName(name) == IndexByte(name, ".")

functionNameIndex(name) ==
    IF name = <<>> THEN -1
    ELSE LET lastSlash == LastIndexByte(name, "/") + 1
             base == IF lastSlash > 0 THEN SliceFrom(name, lastSlash) ELSE name
             firstDot == IndexByte(base, ".")
         IN  IF firstDot # -1 THEN lastSlash + firstDot ELSE -1

\* safeUint16 without the range check: the conversion truncates
safeUint16_truncating(value) == [val |-> value % (MaxUint16 + 1), ok |-> TRUE]

safeUint16(value) ==
    IF value < 0 \/ value > MaxUint16
    THEN [val |-> 0, ok |-> FALSE]
    ELSE [val |-> value % (MaxUint16 + 1), ok |-> TRUE]

\* the callerInfo literal that New and NewFromPC return
callerInfo(file, line, fullFunc) ==
    LET u == safeUint16(line)
    IN  [file |-> file,
         line |-> IF u.ok THEN u.val ELSE 0,
         fn |-> fullFunc,
         dotIdx |-> functionNameIndex(fullFunc)]

-----------------------------------------------------------------------------
(* Accessors of *callerInfo; r is Nil or a record *)

\* Valid as in version 1: file, line and function all present
Valid_v1(r) == r # Nil /\ r.file # <<>> /\ r.line > 0 /\ r.fn # <<>>

Valid(r) == r # Nil /\ r.file # <<>>

File(r) == IF r = Nil THEN <<>> ELSE r.file

Line(r) == IF r = Nil THEN 0 ELSE r.line

\* Location without the guard on an empty file
Location_noFileGuard(r) ==
    IF r = Nil THEN <<>>
    ELSE IF r.line <= 0 THEN r.file
    ELSE r.file \o <<":">> \o Itoa(Line(r))

\* Location without the guard on line 0
Location_noLineGuard(r) ==
    IF r = Nil \/ r.file = <<>> THEN <<>>
    ELSE r.file \o <<":">> \o Itoa(Line(r))

Location(r) ==
    IF r = Nil \/ r.file = <<>> THEN <<>>
    ELSE IF r.line <= 0 THEN r.file
    ELSE r.file \o <<":">> \o Itoa(Line(r))

\* ShortLocation that keeps the directory of the file
ShortLocation_fullPath(r) == Location(r)

ShortLocation(r) ==
    IF r = Nil \/ r.file = <<>> THEN <<>>
    ELSE LET shortFile == Base(r.file)
         IN  IF r.line <= 0 THEN shortFile
             ELSE shortFile \o <<":">> \o Itoa(Line(r))

\* Function that keeps the separator dot
Function_keepsDot(r) ==
    IF r = Nil \/ r.fn = <<>> \/ r.dotIdx < 0 \/ r.dotIdx >= Len(r.fn) - 1
    THEN <<>>
    ELSE SliceFrom(r.fn, r.dotIdx)

Function(r) ==
    IF r = Nil \/ r.fn = <<>> \/ r.dotIdx < 0 \/ r.dotIdx >= Len(r.fn) - 1
    THEN <<>>
    ELSE SliceFrom(r.fn, r.dotIdx + 1)

FullFunction(r) == IF r = Nil THEN <<>> ELSE r.fn

\* Package as in version 1: a name without a separator is its own package
Package_v1(r) ==
    IF r = Nil \/ r.fn = <<>> \/ r.dotIdx = 0 THEN <<>>
    ELSE IF r.dotIdx = -1 THEN r.fn
    ELSE SliceTo(r.fn, r.dotIdx)

Package(r) ==
    IF r = Nil \/ r.fn = <<>> \/ r.dotIdx <= 0 THEN <<>>
    ELSE SliceTo(r.fn, r.dotIdx)

\* PackageName that hands an empty package to filepath.Base
PackageName_noEmptyCheck(r) == Base(Package(r))

\* PackageName that returns the whole import path
PackageName_fullPath(r) == Package(r)

PackageName(r) ==
    LET pkg == Package(r)
    IN  IF pkg = <<>> THEN <<>> ELSE Base(pkg)

String(r) == ShortLocation(r)

\* a string written between the quotes as it is
JSONQuote_noEscape(s) == s

\* encoding/json writes a string with quote and backslash escaped (its other
\* escapes are of characters no name or path here contains)
RECURSIVE JSONQuote(_)
JSONQuote(s) ==
    IF s = <<>> THEN <<>>
    ELSE (IF s[1] \in {"\\", "\""} THEN <<"\\", s[1]>> ELSE <<s[1]>>)
         \o JSONQuote(Tail(s))

\* the output of MarshalJSON: the literal null, or an object as the sequence
\* of its members, each a key and the text of its value
JSONNull == [null |-> TRUE]

JSONObject(members) == [null |-> FALSE, members |-> members]

StringMember(key, s) ==
    IF s = <<>> THEN <<>> ELSE <<[key |-> key, text |-> JSONQuote(s)]>>

IntMember(key, n) ==
    IF n = 0 THEN <<>> ELSE <<[key |-> key, text |-> Itoa(n)]>>

\* MarshalJSON that writes the qualified name as the function
MarshalJSON_rawName(r) ==
    IF r = Nil THEN JSONNull
    ELSE JSONObject(StringMember("file", r.file)
                    \o IntMember("line", r.line)
                    \o StringMember("function", r.fn)
                    \o StringMember("package", Package(r)))

MarshalJSON(r) ==
    IF r = Nil THEN JSONNull
    ELSE JSONObject(StringMember("file", r.file)
                    \o IntMember("line", r.line)
                    \o StringMember("function", Function(r))
                    \o StringMember("package", Package(r)))

\* the slog.Value of LogValue: the empty value, or a group of attributes
EmptyValue == [empty |-> TRUE]

GroupValue(attrs) == [empty |-> FALSE, attrs |-> attrs]

Attr(key, val) == [key |-> key, val |-> val]

\* LogValue that does not ask Valid first
LogValue_noValidCheck(r) ==
    LET file == File(r)
        line == Line(r)
        fn == Function(r)
        pkg == Package(r)
    IN  GroupValue(
            (IF file # <<>>
             THEN <<Attr("file", file)>>
                  \o (IF line > 0 THEN <<Attr("line", line)>> ELSE <<>>)
             ELSE <<>>)
            \o (IF fn # <<>> THEN <<Attr("function", fn)>> ELSE <<>>)
            \o (IF pkg # <<>> THEN <<Attr("package", pkg)>> ELSE <<>>))

LogValue(r) ==
    IF ~Valid(r) THEN EmptyValue
    ELSE LET file == File(r)
             line == Line(r)
             fn == Function(r)
             pkg == Package(r)
         IN  GroupValue(
                 (IF file # <<>>
                  THEN <<Attr("file", file)>>
                       \o (IF line > 0 THEN <<Attr("line", line)>> ELSE <<>>)
                  ELSE <<>>)
                 \o (IF fn # <<>> THEN <<Attr("function", fn)>> ELSE <<>>)
                 \o (IF pkg # <<>> THEN <<Attr("package", pkg)>> ELSE <<>>))

\* The argument of Equal, a Caller: the untyped nil interface, a *callerInfo
\* (typed nil, the receiver's own pointer, or another record), or another
\* implementation of the interface (mockCaller) with its own accessors
UntypedNil == [kind |-> "nil"]

AsCaller(r) == [kind |-> "callerInfo", same |-> FALSE, rec |-> r]

SamePointer(r) == [kind |-> "callerInfo", same |-> TRUE, rec |-> r]

TypedNil == AsCaller(Nil)

MockCaller(file, line, fullFn) ==
    [kind |-> "mock", file |-> file, line |-> line, fullFn |-> fullFn]

\* Equal that also compares the cached dotIdx
Equal_withDotIdx(r, other) ==
    IF r = Nil \/ other = UntypedNil THEN FALSE
    ELSE IF other.kind = "callerInfo"
    THEN IF other.rec = Nil THEN FALSE
         ELSE IF other.same THEN TRUE
         ELSE r = other.rec
    ELSE /\ r.file = other.file
         /\ r.line = other.line
         /\ r.fn = other.fullFn

\* Equal that compares the pointers before it looks for nil
Equal_pointersFirst(r, other) ==
    IF other = UntypedNil THEN FALSE
    ELSE IF other.kind = "callerInfo"
    THEN IF other.same \/ (r = Nil /\ other.rec = Nil) THEN TRUE
         ELSE IF r = Nil \/ other.rec = Nil THEN FALSE
         ELSE /\ r.file = other.rec.file
              /\ r.line = other.rec.line
              /\ r.fn = other.rec.fn
    ELSE IF r = Nil THEN FALSE
    ELSE /\ r.file = other.file
         /\ r.line = other.line
         /\ r.fn = other.fullFn

Equal(r, other) ==
    IF r = Nil \/ other = UntypedNil THEN FALSE
    ELSE IF other.kind = "callerInfo"
    THEN IF other.rec = Nil THEN FALSE
         ELSE IF other.same THEN TRUE
         ELSE /\ r.file = other.rec.file
              /\ r.line = other.rec.line
              /\ r.fn = other.rec.fn
    ELSE /\ r.file = other.file
         /\ r.line = other.line
         /\ r.fn = other.fullFn

-----------------------------------------------------------------------------
(* The runtime: call stack and symbol table *)

\* the frames of New and Immediate themselves, above the user's frames
NewFrame ==
    [file |-> <<"c", "a", "l", "l", "e", "r", ".", "g", "o">>, line |-> 107,
     fn |-> <<"c", "a", "l", "l", "e", "r", ".", "N", "e", "w">>]

ImmediateFrame ==
    [file |-> <<"c", "a", "l", "l", "e", "r", ".", "g", "o">>, line |-> 136,
     fn |-> <<"c", "a", "l", "l", "e", "r", ".", "I", "m", "m", "e", "d", "i", "a",
              "t", "e">>]

\* runtime.Caller that fails one frame too early
RuntimeCaller_strict(frames, n) ==
    IF n >= 0 /\ n + 1 < Len(frames)
    THEN [ok |-> TRUE, frame |-> frames[n + 1]]
    ELSE [ok |-> FALSE]

\* runtime.Caller(n) inside New, with frames the whole stack, New's first
RuntimeCaller(frames, n) ==
    IF n >= 0 /\ n + 1 <= Len(frames)
    THEN [ok |-> TRUE, frame |-> frames[n + 1]]
    ELSE [ok |-> FALSE]

\* New without the check of a negative skip
NewOn_noSkipCheck(frames, skip) ==
    LET rc == RuntimeCaller(frames, skip + skipAdjust)
    IN  IF ~rc.ok THEN Nil
        ELSE callerInfo(rc.frame.file, rc.frame.line, rc.frame.fn)

\* New's body, run on top of the given frames
NewOn(frames, skip) ==
    IF skip < 0 THEN Nil
    ELSE LET rc == RuntimeCaller(frames, skip + skipAdjust)
         IN  IF ~rc.ok THEN Nil
             ELSE callerInfo(rc.frame.file, rc.frame.line, rc.frame.fn)

\* runtime.FuncForPC: pc i is an address inside the i-th frame of the stack
FuncForPC(pc) == IF pc >= 1 /\ pc <= Len(stack) THEN <<stack[pc]>> ELSE <<>>

-----------------------------------------------------------------------------
(* JSON documents: a malformed text, or an object whose four keys are each *)
(* omitted (<<>>) or present with a value (<<v>>)                          *)

Malformed == [malformed |-> TRUE]

Doc(file, line, function, package) ==
    [file |-> file, line |-> line, function |-> function, package |-> package]

\* json.Unmarshal(data, &aux): an omitted key leaves the zero value
Decode(d) ==
    IF d = Malformed THEN [err |-> TRUE]
    ELSE [err |-> FALSE,
          File |-> IF d.file = <<>> THEN <<>> ELSE d.file[1],
          Line |-> IF d.line = <<>> THEN 0 ELSE d.line[1],
          Function |-> IF d.function = <<>> THEN <<>> ELSE d.function[1],
          Package |-> IF d.package = <<>> THEN <<>> ELSE d.package[1]]

\* UnmarshalJSON that joins package and function without looking at the package
UnmarshalJSONOn_noPackageCheck(r, d) ==
    LET aux == Decode(d)
    IN  IF aux.err THEN [c |-> r, err |-> "syntax"]
        ELSE IF r = Nil THEN [c |-> r, err |-> "panic"]
        ELSE LET r1 == [r EXCEPT !.file = aux.File]
                 u == safeUint16(aux.Line)
             IN  IF ~u.ok THEN [c |-> r1, err |-> "line"]
                 ELSE LET r2 == [r1 EXCEPT !.line = u.val]
                      IN  IF aux.Function = <<>>
                          THEN [c |-> [r2 EXCEPT !.fn = <<>>, !.dotIdx = -1],
                                err |-> "none"]
                          ELSE LET name == aux.Package \o <<".">> \o aux.Function
                               IN  [c |-> [r2 EXCEPT
                                             !.fn = name,
                                             !.dotIdx = functionNameIndex(name)],
                                    err |-> "none"]

\* UnmarshalJSON that narrows the line the way New does: 0 when out of range
UnmarshalJSONOn_coercing(r, d) ==
    LET aux == Decode(d)
    IN  IF aux.err THEN [c |-> r, err |-> "syntax"]
        ELSE IF r = Nil THEN [c |-> r, err |-> "panic"]
        ELSE LET u == safeUint16(aux.Line)
                 r2 == [r EXCEPT !.file = aux.File,
                                 !.line = IF u.ok THEN u.val ELSE 0]
             IN  IF aux.Function = <<>>
                 THEN [c |-> [r2 EXCEPT !.fn = <<>>, !.dotIdx = -1],
                       err |-> "none"]
                 ELSE IF aux.Package = <<>>
                 THEN [c |-> [r2 EXCEPT !.fn = aux.Function, !.dotIdx = -1],
                       err |-> "none"]
                 ELSE LET name == aux.Package \o <<".">> \o aux.Function
                      IN  [c |-> [r2 EXCEPT
                                    !.fn = name,
                                    !.dotIdx = functionNameIndex(name)],
                           err |-> "none"]

\* UnmarshalJSON that leaves the field of an omitted key as it was
UnmarshalJSONOn_keepsOmitted(r, d) ==
    LET aux == Decode(d)
    IN  IF aux.err THEN [c |-> r, err |-> "syntax"]
        ELSE IF r = Nil THEN [c |-> r, err |-> "panic"]
        ELSE LET r1 == IF d.file = <<>> THEN r ELSE [r EXCEPT !.file = aux.File]
                 u == safeUint16(aux.Line)
             IN  IF ~u.ok THEN [c |-> r1, err |-> "line"]
                 ELSE LET r2 == IF d.line = <<>> THEN r1
                                ELSE [r1 EXCEPT !.line = u.val]
                      IN  IF aux.Function = <<>>
                          THEN [c |-> IF d.function = <<>> THEN r2
                                      ELSE [r2 EXCEPT !.fn = <<>>, !.dotIdx = -1],
                                err |-> "none"]
                          ELSE IF aux.Package = <<>>
                          THEN [c |-> [r2 EXCEPT !.fn = aux.Function,
                                                 !.dotIdx = -1],
                                err |-> "none"]
                          ELSE LET name == aux.Package \o <<".">> \o aux.Function
                               IN  [c |-> [r2 EXCEPT
                                             !.fn = name,
                                             !.dotIdx = functionNameIndex(name)],
                                    err |-> "none"]

\* UnmarshalJSON's body on receiver r: the receiver afterwards and the error
UnmarshalJSONOn(r, d) ==
    LET aux == Decode(d)
    IN  IF aux.err THEN [c |-> r, err |-> "syntax"]
        ELSE IF r = Nil THEN [c |-> r, err |-> "panic"]
        ELSE LET r1 == [r EXCEPT !.file = aux.File]
                 u == safeUint16(aux.Line)
             IN  IF ~u.ok THEN [c |-> r1, err |-> "line"]
                 ELSE LET r2 == [r1 EXCEPT !.line = u.val]
                      IN  IF aux.Function = <<>>
                          THEN [c |-> [r2 EXCEPT !.fn = <<>>, !.dotIdx = -1],
                                err |-> "none"]
                          ELSE IF aux.Package = <<>>
                          THEN [c |-> [r2 EXCEPT !.fn = aux.Function,
                                                 !.dotIdx = -1],
                                err |-> "none"]
                          ELSE LET name == aux.Package \o <<".">> \o aux.Function
                               IN  [c |-> [r2 EXCEPT
                                             !.fn = name,
                                             !.dotIdx = functionNameIndex(name)],
                                    err |-> "none"]


\* encoding/json reads a string back: a backslash stands for the character
\* that follows it
RECURSIVE JSONUnquote(_)
JSONUnquote(t) ==
    IF t = <<>> THEN <<>>
    ELSE IF t[1] = "\\" /\ Len(t) >= 2
    THEN <<t[2]>> \o JSONUnquote(SubSeq(t, 3, Len(t)))
    ELSE <<t[1]>> \o JSONUnquote(Tail(t))

\* encoding/json reads a number of decimal digits back
RECURSIVE JSONNumber(_)
JSONNumber(t) ==
    IF t = <<>> THEN 0
    ELSE 10 * JSONNumber(SubSeq(t, 1, Len(t) - 1))
         + ((CHOOSE k \in 1..10 : Digits[k] = t[Len(t)]) - 1)

\* the text of the member named key, <<>> when the object has none
MemberText(members, key) ==
    LET I == {i \in 1..Len(members) : members[i].key = key}
    IN  IF I = {} THEN <<>> ELSE <<members[CHOOSE i \in I : TRUE].text>>

\* the document json.Unmarshal reads from the output of MarshalJSON; null
\* leaves every field of aux at its zero value
ParseJSON(out) ==
    IF out.null THEN Doc(<<>>, <<>>, <<>>, <<>>)
    ELSE LET text(key) == MemberText(out.members, key)
             str(key) == IF text(key) = <<>> THEN <<>>
                         ELSE <<JSONUnquote(text(key)[1])>>
         IN  Doc(str("file"),
                 IF text("line") = <<>> THEN <<>>
                 ELSE <<JSONNumber(text("line")[1])>>,
                 str("function"),
                 str("package"))

\* the zero callerInfo of `var got callerInfo`
ZeroRecord == [file |-> <<>>, line |-> 0, fn |-> <<>>, dotIdx |-> 0]

-----------------------------------------------------------------------------
(* Inputs *)

NameAlphabet == {".", "/", "\\", "a"}
FileAlphabet == {"/", "a"}
PartAlphabet == {".", "/", "a"}

\* the names of TestCallerInfo_Function and Test_callerInfo_Package
\* "main"
NameMain ==
    <<"m", "a", "i", "n">>

\* "pkg."
NamePkgDot ==
    <<"p", "k", "g", ".">>

\* ".Func"
NameDotFunc ==
    <<".", "F", "u", "n", "c">>

\* "pkg.Func"
NamePkgFunc ==
    <<"p", "k", "g", ".", "F", "u", "n", "c">>

\* "pkg.(*Type).Method"
NameMethod ==
    <<"p", "k", "g", ".", "(", "*", "T", "y", "p", "e", ")", ".", "M", "e",
      "t", "h", "o", "d">>

\* "github.com/user/repo.Func"
NameRepoFunc ==
    <<"g", "i", "t", "h", "u", "b", ".", "c", "o", "m", "/", "u", "s", "e",
      "r", "/", "r", "e", "p", "o", ".", "F", "u", "n", "c">>

\* "C:\\my.dir\\pkg.Func"
NameBackslash ==
    <<"C", ":", "\\", "m", "y", ".", "d", "i", "r", "\\", "p", "k", "g",
      ".", "F", "u", "n", "c">>

ExampleNames ==
    {NameMain, NamePkgDot, NameDotFunc, NamePkgFunc,
     NameMethod, NameRepoFunc, NameBackslash}

Names == Seqs(NameAlphabet, MaxNameLen) \cup ExampleNames

\* "/path/to/main.go"
ExampleFile ==
    <<"/", "p", "a", "t", "h", "/", "t", "o", "/", "m", "a", "i", "n", ".",
      "g", "o">>

\* the files the runtime reports are never empty
Files == (Seqs(FileAlphabet, MaxFileLen) \ {<<>>}) \cup {ExampleFile}

\* lines the runtime or a document may report, in and out of uint16
RawLines == {-1, 0, 1, 42, MaxUint16, MaxUint16 + 1, MaxUint16 + 1 + 42}

\* the runtime reports no negative line
FrameLines == {l \in RawLines : l >= 0}

\* "C:\\my.dir\\pkg"
PartBackslashPkg ==
    <<"C", ":", "\\", "m", "y", ".", "d", "i", "r", "\\", "p", "k", "g">>

\* "my/pkg" and "MyFunc" of TestCallerInfo_UnmarshalJSON
PartMyPkg == <<"m", "y", "/", "p", "k", "g">>

PartMyFunc == <<"M", "y", "F", "u", "n", "c">>

Parts ==
    Seqs(PartAlphabet, MaxPartLen) \cup {PartBackslashPkg, PartMyPkg, PartMyFunc}

FuncParts == Seqs(PartAlphabet, MaxFuncLen) \cup {PartMyFunc}

Opt(S) == {<<>>} \cup {<<v>> : v \in S}

DefaultName == NamePkgFunc

DefaultDoc == Doc(<<ExampleFile>>, <<42>>, <<PartMyFunc>>, <<PartMyPkg>>)

Docs ==
    {Malformed}
    \cup {Doc(<<ExampleFile>>, <<42>>, f, p) : f \in Opt(FuncParts), p \in Opt(Parts)}
    \cup {Doc(f, l, <<PartMyFunc>>, <<PartMyPkg>>) :
            f \in Opt({<<>>, ExampleFile}), l \in Opt(RawLines)}
    \cup {Doc(f, l, <<>>, <<>>) : f \in Opt({ExampleFile}), l \in Opt(RawLines)}

\* the callers of the innermost frame: frame i is called by frame i + 1
OuterFrame(i) ==
    [file |-> <<"m", ".", "g", "o">>, line |-> 10 * i,
     fn |-> <<"m", "a", "i", "n", ".", "f", Digits[(i % 10) + 1]>>]

Outer == [i \in 1..(MaxDepth - 1) |-> OuterFrame(i)]

Frames ==
    {[file |-> ExampleFile, line |-> 42, fn |-> n] : n \in Names}
    \cup {[file |-> f, line |-> l, fn |-> DefaultName] :
            f \in Files, l \in FrameLines}

DefaultFrame == [file |-> ExampleFile, line |-> 42, fn |-> DefaultName]

\* the Callers a record r is compared with, by name
OtherTags ==
    {"nil", "typedNil", "self", "copy", "dotIdx", "file", "line", "fn",
     "mock", "mockFile", "mockLine", "mockFn"}

OtherOf(r, tag) ==
    IF tag = "nil" THEN UntypedNil
    ELSE IF tag = "typedNil" THEN TypedNil
    ELSE IF tag = "self" THEN SamePointer(r)
    ELSE IF r = Nil THEN TypedNil
    ELSE IF tag = "copy" THEN AsCaller(r)
    ELSE IF tag = "dotIdx"
    THEN AsCaller([r EXCEPT !.dotIdx = IF r.dotIdx = -1 THEN 0 ELSE -1])
    ELSE IF tag = "file" THEN AsCaller([r EXCEPT !.file = r.file \o <<"x">>])
    ELSE IF tag = "line"
    THEN AsCaller([r EXCEPT !.line = (r.line + 1) % (MaxUint16 + 1)])
    ELSE IF tag = "fn" THEN AsCaller([r EXCEPT !.fn = r.fn \o <<"x">>])
    ELSE IF tag = "mock" THEN MockCaller(r.file, r.line, r.fn)
    ELSE IF tag = "mockFile" THEN MockCaller(r.file \o <<"x">>, r.line, r.fn)
    ELSE IF tag = "mockLine"
    THEN MockCaller(r.file, r.line + MaxUint16 + 1, r.fn)
    ELSE MockCaller(r.file, r.line, r.fn \o <<"x">>)

-----------------------------------------------------------------------------
(* The state machine *)

Init ==
    /\ \/ /\ stack \in {<<f>> \o Outer : f \in Frames}
          /\ data = DefaultDoc
       \/ /\ stack = <<DefaultFrame>> \o Outer
          /\ data \in Docs
    /\ c = Nil
    /\ ret = [op |-> "init", arg |-> 0, val |-> 0]

\* New(skip), called directly by the innermost user frame
New(skip) ==
    /\ c' = NewOn(<<NewFrame>> \o stack, skip)
    /\ ret' = [op |-> "New", arg |-> skip, val |-> (c' # Nil)]
    /\ UNCHANGED <<stack, data>>

\* Immediate that does not count its own frame
Immediate_asNew ==
    /\ c' = NewOn(<<NewFrame>> \o stack, 0)
    /\ ret' = [op |-> "Immediate", arg |-> 0, val |-> (c' # Nil)]
    /\ UNCHANGED <<stack, data>>

\* Immediate(), called directly by the innermost user frame
Immediate ==
    /\ c' = NewOn(<<NewFrame, ImmediateFrame>> \o stack, 0)
    /\ ret' = [op |-> "Immediate", arg |-> 0, val |-> (c' # Nil)]
    /\ UNCHANGED <<stack, data>>

NewFromPC(pc) ==
    /\ LET f == FuncForPC(pc)
       IN  c' = IF f = <<>> THEN Nil
                ELSE callerInfo(f[1].file, f[1].line, f[1].fn)
    /\ ret' = [op |-> "NewFromPC", arg |-> pc, val |-> (c' # Nil)]
    /\ UNCHANGED <<stack, data>>

UnmarshalJSON ==
    /\ LET res == UnmarshalJSONOn(c, data)
       IN  /\ c' = res.c
           /\ ret' = [op |-> "UnmarshalJSON", arg |-> 0, val |-> res.err]
    /\ UNCHANGED <<stack, data>>

\* a read that stores the separator index it computes
Read_memoizing(op, val) ==
    /\ ret' = [op |-> op, arg |-> 0, val |-> val]
    /\ c' = IF c = Nil THEN c
            ELSE [c EXCEPT !.dotIdx = functionNameIndex(c.fn)]
    /\ UNCHANGED <<stack, data>>

\* a read accessor: the record is left alone and the result is returned
Read(op, val) ==
    /\ ret' = [op |-> op, arg |-> 0, val |-> val]
    /\ UNCHANGED <<stack, data, c>>

CallValid == Read("Valid", Valid(c))
CallFile == Read("File", File(c))
CallLine == Read("Line", Line(c))
CallLocation == Read("Location", Location(c))
CallShortLocation == Read("ShortLocation", ShortLocation(c))
CallString == Read("String", String(c))
CallFunction == Read("Function", Function(c))
CallFullFunction == Read("FullFunction", FullFunction(c))
CallPackage == Read("Package", Package(c))
CallPackageName == Read("PackageName", PackageName(c))

CallMarshalJSON == Read("MarshalJSON", MarshalJSON(c))
CallLogValue == Read("LogValue", LogValue(c))

\* json.Marshal of c, then UnmarshalJSON of the bytes on a zero callerInfo
RoundTrip ==
    Read("RoundTrip", UnmarshalJSONOn(ZeroRecord, ParseJSON(MarshalJSON(c))))

\* c.Equal(other); the argument is recorded by its name
CallEqual(tag) ==
    /\ ret' = [op |-> "Equal", arg |-> tag, val |-> Equal(c, OtherOf(c, tag))]
    /\ UNCHANGED <<stack, data, c>>

Next ==
    \/ \E skip \in -1..MaxSkip : New(skip)
    \/ Immediate
    \/ \E pc \in 0..(MaxDepth + 1) : NewFromPC(pc)
    \/ UnmarshalJSON
    \/ CallValid
    \/ CallFile
    \/ CallLine
    \/ CallLocation
    \/ CallShortLocation
    \/ CallString
    \/ CallFunction
    \/ CallFullFunction
    \/ CallPackage
    \/ CallPackageName
    \/ CallMarshalJSON
    \/ CallLogValue
    \/ RoundTrip
    \/ \E tag \in OtherTags : CallEqual(tag)

Spec == Init /\ [][Next]_vars

TypeOK ==
    /\ c = Nil \/ /\ c.line \in 0..MaxUint16
                  /\ c.dotIdx \in -1..(Len(c.fn) - 1)

-----------------------------------------------------------------------------
(* Reference definitions the claims are stated with *)

\* the last operation captured a frame and returned a record
Captured == ret.op \in {"New", "Immediate", "NewFromPC"} /\ c # Nil

\* the last operation was an UnmarshalJSON that returned no error
Rehydrated == ret.op = "UnmarshalJSON" /\ ret.val = "none"

HasChar(s, ch) == \E i \in 1..Len(s) : s[i] = ch

\* 1-based positions of a dot of s that has no separator of Sep after it
\* and no other dot between the last separator before it and itself
RefSeparators(s, Sep) ==
    {i \in 1..Len(s) :
        /\ s[i] = "."
        /\ \A j \in (i + 1)..Len(s) : s[j] \notin Sep
        /\ \A j \in 1..(i - 1) :
              s[j] = "." => \E k \in (j + 1)..(i - 1) : s[k] \in Sep}

\* the reference parser: 0-based index of the separator dot, or -1
RefIndex(s, Sep) ==
    IF RefSeparators(s, Sep) = {} THEN -1
    ELSE (CHOOSE i \in RefSeparators(s, Sep) : TRUE) - 1

\* the part of s after its last '/', s itself when it has none
AfterLastSlash(s) ==
    LET S == {i \in 1..Len(s) : s[i] = "/"}
    IN  IF S = {} THEN s ELSE SubSeq(s, Max(S) + 1, Len(s))

\* the last element of a non-empty path: trailing slashes are dropped first,
\* and a path of slashes only is "/"
RefLastElement(s) ==
    LET N == {i \in 1..Len(s) : s[i] # "/"}
    IN  IF N = {} THEN <<"/">>
        ELSE LET e == Max(N)
                 b == Max({0} \cup {j \in 1..e : s[j] = "/"})
             IN  SubSeq(s, b + 1, e)

\* the number a string of decimal digits denotes
RECURSIVE DecimalValue(_)
DecimalValue(d) ==
    IF d = <<>> THEN 0
    ELSE 10 * DecimalValue(SubSeq(d, 1, Len(d) - 1))
         + ((CHOOSE k \in 1..10 : Digits[k] = d[Len(d)]) - 1)

\* d is the decimal numeral of n: digits only, no leading zero
IsDecimalOf(d, n) ==
    /\ d # <<>>
    /\ \A i \in 1..Len(d) : \E k \in 1..10 : Digits[k] = d[i]
    /\ Len(d) > 1 => d[1] # "0"
    /\ DecimalValue(d) = n

\* loc is prefix, a colon and the decimal numeral of n
IsFileColonLine(loc, prefix, n) ==
    /\ Len(loc) >= Len(prefix) + 2
    /\ SubSeq(loc, 1, Len(prefix)) = prefix
    /\ loc[Len(prefix) + 1] = ":"
    /\ IsDecimalOf(SubSeq(loc, Len(prefix) + 2, Len(loc)), n)

Prefixes == Seqs(NameAlphabet, MaxPrefixLen)

-----------------------------------------------------------------------------
(* C1..C10 *)

C2_DotIdxFromNameOnly ==
    c # Nil => c.dotIdx = functionNameIndex(c.fn)

\* C3: prepending a prefix segment and a '/' shifts the separator index by
\* the length of the prefix plus one when the name has a separator, leaves
\* it -1 otherwise, and leaves Function unchanged.
C3_PrefixShiftsSplit ==
    Captured =>
        \A p \in Prefixes :
            LET r == callerInfo(c.file, c.line, p \o <<"/">> \o c.fn)
            IN  /\ r.dotIdx = IF c.dotIdx >= 0
                              THEN Len(p) + 1 + c.dotIdx
                              ELSE -1
                /\ c.dotIdx >= 0 =>
                      /\ Function(r) = Function(c)
                      /\ Package(r) = p \o <<"/">> \o Package(c)

C3_Witness ==
    /\ Captured
    /\ c.fn = <<"a", ".", "a">>
    /\ c.dotIdx = 1
    /\ functionNameIndex(<<".", "a", "/">> \o c.fn) = 4

\* C4: a backslash is a path separator too: wherever the parser has run
\* (here on the name UnmarshalJSON builds from a package and a function),
\* the separator index is the first dot after the last '/' or '\', and
\* Package is the whole backslash path up to that dot.
C4_BackslashIsSeparator ==
    (Rehydrated /\ c.dotIdx = functionNameIndex(c.fn)) =>
        /\ c.dotIdx = RefIndex(c.fn, {"/", "\\"})
        /\ c.fn = NameBackslash => Package(c) = PartBackslashPkg

\* C5: with dotIdx = functionNameIndex(fn), Function is the part of fn
\* strictly after the separator dot; it is empty exactly when there is no
\* separator or the separator is the last character.
C5_FunctionAfterDot ==
    (c # Nil /\ c.dotIdx = functionNameIndex(c.fn)) =>
        LET i == RefIndex(c.fn, {"/"})
        IN  /\ Function(c) = IF i = -1 THEN <<>>
                             ELSE SubSeq(c.fn, i + 2, Len(c.fn))
            /\ Function(c) = <<>> <=> (i = -1 \/ i = Len(c.fn) - 1)
            /\ c.fn \in {<<>>, NameMain, NamePkgDot} => Function(c) = <<>>
            /\ c.fn = NameDotFunc => Function(c) = <<"F", "u", "n", "c">>
            /\ c.fn = NameMethod =>
                  Function(c) = <<"(", "*", "T", "y", "p", "e", ")", ".",
                                  "M", "e", "t", "h", "o", "d">>
            /\ ret.op = "Function" => ret.val = Function(c)

C5_Witness ==
    /\ ret.op = "Function"
    /\ c # Nil
    /\ c.fn = NameMethod
    /\ c.dotIdx = 3
    /\ Len(ret.val) = 14

\* C6: with dotIdx = functionNameIndex(fn), Package is the part of fn
\* strictly before the separator dot, and empty when there is no separator
\* or the separator is at index 0.
C6_PackageBeforeDot ==
    (c # Nil /\ c.dotIdx = functionNameIndex(c.fn)) =>
        LET i == RefIndex(c.fn, {"/"})
        IN  /\ Package(c) = IF i <= 0 THEN <<>> ELSE SubSeq(c.fn, 1, i)
            /\ c.fn \in {<<>>, NameMain, NameDotFunc} => Package(c) = <<>>
            /\ c.fn = NamePkgFunc => Package(c) = <<"p", "k", "g">>
            /\ ret.op = "Package" => ret.val = Package(c)

C6_Witness ==
    /\ ret.op = "Package"
    /\ c # Nil
    /\ c.fn = NameMain
    /\ c.dotIdx = -1
    /\ ret.val = <<>>

\* C7 as claimed, on the records UnmarshalJSON leaves: PackageName is the
\* part of Package after its last '/'.
C7_PackageNameAfterLastSlash ==
    Rehydrated => PackageName(c) = AfterLastSlash(Package(c))

\* C7, amended: PackageName is empty when Package is empty and otherwise the
\* last element of Package with trailing slashes ignored ("/" for a Package
\* of slashes only); it is the part after the last '/' whenever Package
\* does not end in '/'.
C7_PackageNameIsLastElement ==
    c # Nil =>
        LET pkg == Package(c)
        IN  /\ PackageName(c) = IF pkg = <<>> THEN <<>> ELSE RefLastElement(pkg)
            /\ (pkg = <<>> \/ pkg[Len(pkg)] # "/") =>
                  PackageName(c) = AfterLastSlash(pkg)
            /\ c.fn = NameRepoFunc /\ c.dotIdx = 20 =>
                  PackageName(c) = <<"r", "e", "p", "o">>
            /\ ret.op = "PackageName" => ret.val = PackageName(c)

C7_Witness ==
    /\ ret.op = "PackageName"
    /\ c # Nil
    /\ Package(c) = <<"a", "/">>
    /\ ret.val = <<"a">>

\* C8: Valid is true exactly for a present record with a non-empty file;
\* the line and the function name have no influence on it.
C8_ValidIffFile ==
    /\ Valid(c) <=> (c # Nil /\ c.file # <<>>)
    /\ c # Nil =>
          \A l \in {0, 1, MaxUint16} : \A n \in {<<>>, NameMain, NamePkgFunc} :
              Valid([c EXCEPT !.line = l, !.fn = n,
                              !.dotIdx = functionNameIndex(n)]) = Valid(c)
    /\ ret.op = "Valid" => ret.val = (c # Nil /\ c.file # <<>>)

C8_Witness ==
    /\ ret.op = "Valid"
    /\ ret.val = TRUE
    /\ c.line = 0
    /\ c.fn = <<>>

\* C9 as claimed, on the records UnmarshalJSON leaves: whatever the file,
\* Location is file alone when line is 0 and file, ':' and the decimal line
\* otherwise.
C9_LocationFileColonLine ==
    Rehydrated =>
        IF c.line = 0 THEN Location(c) = c.file
        ELSE IsFileColonLine(Location(c), c.file, c.line)

\* C9, amended: for every present record with a non-empty file, Location is
\* file alone when line is 0 and file, ':' and the decimal line otherwise;
\* with an empty file it is the empty string whatever the line.
C9_LocationOfNonEmptyFile ==
    c # Nil =>
        /\ c.line \in 0..MaxUint16
        /\ c.file # <<>> =>
              IF c.line = 0 THEN Location(c) = c.file
              ELSE IsFileColonLine(Location(c), c.file, c.line)
        /\ c.file = <<>> => Location(c) = <<>>
        /\ ret.op = "Location" => ret.val = Location(c)

C9_Witness ==
    /\ ret.op = "Location"
    /\ c # Nil
    /\ c.file = ExampleFile
    /\ c.line = MaxUint16
    /\ ret.val = ExampleFile \o <<":", "6", "5", "5", "3", "5">>

\* C10: for a present record with a non-empty file, ShortLocation is
\* Location computed with file replaced by its last element (basename);
\* String is ShortLocation for every record.
C10_ShortLocationOfBase ==
    /\ (c # Nil /\ c.file # <<>>) =>
          ShortLocation(c) =
              Location([c EXCEPT !.file = RefLastElement(c.file)])
    /\ String(c) = ShortLocation(c)
    /\ ret.op = "ShortLocation" => ret.val = ShortLocation(c)
    /\ ret.op = "String" => ret.val = ShortLocation(c)

C10_Witness ==
    /\ ret.op = "String"
    /\ c # Nil
    /\ c.file = ExampleFile
    /\ c.line = 42
    /\ ret.val = <<"m", "a", "i", "n", ".", "g", "o", ":", "4", "2">>


-----------------------------------------------------------------------------
(* Reference definitions for the claims on Equal, capture and UnmarshalJSON *)

\* the accessors of the Caller handed to Equal
OtherFile(b) == IF b.kind = "mock" THEN b.file ELSE File(b.rec)

OtherLine(b) == IF b.kind = "mock" THEN b.line ELSE Line(b.rec)

OtherFullFunction(b) == IF b.kind = "mock" THEN b.fullFn ELSE FullFunction(b.rec)

SameSource(r, b) ==
    /\ File(r) = OtherFile(b)
    /\ Line(r) = OtherLine(b)
    /\ FullFunction(r) = OtherFullFunction(b)

PresentTags == OtherTags \ {"nil", "typedNil"}

OneFieldChangedTags == {"file", "line", "fn", "mockFile", "mockLine", "mockFn"}

\* the user frame the last capture asked for: frame skip+skipAdjust counted
\* from New's own frame, the innermost user frame for Immediate, frame pc
RequestedIndex ==
    IF ret.op = "New" THEN ret.arg + skipAdjust
    ELSE IF ret.op = "Immediate" THEN 1
    ELSE ret.arg

FrameExists(i) == i >= 1 /\ i <= Len(stack)

InUint16(l) == l >= 0 /\ l <= MaxUint16

\* the value of a key of the document, the zero value when omitted
DocString(o) == IF o = <<>> THEN <<>> ELSE o[1]

DocInt(o) == IF o = <<>> THEN 0 ELSE o[1]

-----------------------------------------------------------------------------
\* C11: whenever the file is empty, Location(), ShortLocation() and String()
\* all return the empty string, whatever the line is
C11_EmptyFileGivesEmptyLocations ==
    File(c) = <<>> =>
        /\ Location(c) = <<>>
        /\ ShortLocation(c) = <<>>
        /\ String(c) = <<>>
        /\ ret.op \in {"Location", "ShortLocation", "String"} => ret.val = <<>>

C11_Witness ==
    /\ ret.op = "Location"
    /\ c # Nil
    /\ c.file = <<>>
    /\ c.line = 42
    /\ ret.val = <<>>

\* C12: for a present record a and a present Caller b of any implementation,
\* a.Equal(b) holds exactly when File, Line and FullFunction agree; the cached
\* dotIdx has no influence; Equal is reflexive, symmetric on records, and false
\* as soon as exactly one of the three fields differs
C12_EqualIffSameSource ==
    c # Nil =>
        /\ \A tag \in PresentTags :
              LET b == OtherOf(c, tag)
              IN  /\ Equal(c, b) <=> SameSource(c, b)
                  /\ b.kind = "callerInfo" =>
                        Equal(b.rec, AsCaller(c)) = Equal(c, b)
        /\ Equal(c, SamePointer(c))
        /\ Equal(c, AsCaller(c))
        /\ Equal(c, OtherOf(c, "dotIdx"))
        /\ \A tag \in OneFieldChangedTags : ~Equal(c, OtherOf(c, tag))
        /\ (ret.op = "Equal" /\ ret.arg \in PresentTags) =>
              ret.val = SameSource(c, OtherOf(c, ret.arg))

C12_Witness ==
    /\ ret.op = "Equal"
    /\ ret.arg = "dotIdx"
    /\ c # Nil
    /\ c.dotIdx >= 0
    /\ OtherOf(c, "dotIdx").rec.dotIdx = -1
    /\ ret.val = TRUE

\* C13: Equal is false whenever either side is absent: a nil receiver, an
\* untyped nil argument, a typed nil *callerInfo argument; two absent Callers
\* are not equal
C13_AbsentNeverEqual ==
    /\ \A tag \in OtherTags :
          /\ ~Equal(Nil, OtherOf(c, tag))
          /\ ~Equal(Nil, OtherOf(Nil, tag))
    /\ ~Equal(c, UntypedNil)
    /\ ~Equal(c, TypedNil)
    /\ (ret.op = "Equal" /\ (c = Nil \/ ret.arg \in {"nil", "typedNil"})) =>
          ret.val = FALSE

C13_Witness ==
    /\ ret.op = "Equal"
    /\ c = Nil
    /\ ret.arg = "typedNil"
    /\ ret.val = FALSE

C16_CaptureCoercesLineToZero ==
    /\ Captured =>
          LET f == stack[RequestedIndex]
          IN  /\ c.file = f.file
              /\ c.fn = f.fn
              /\ Line(c) = IF InUint16(f.line) THEN f.line ELSE 0
    /\ (ret.op \in {"Immediate", "NewFromPC"} /\ FrameExists(RequestedIndex)) =>
          c # Nil

C16_Witness ==
    /\ Captured
    /\ ret.op = "NewFromPC"
    /\ stack[ret.arg].line = MaxUint16 + 1 + 42
    /\ Line(c) = 0
    /\ c.file = stack[ret.arg].file

\* C17 as stated: Immediate(), called directly from F, returns the record of
\* F's own frame: function F, F's file and the line of the call, on every stack
C17_ImmediateIsCallingFrame ==
    ret.op = "Immediate" =>
        /\ c # Nil
        /\ FullFunction(c) = stack[1].fn
        /\ File(c) = stack[1].file
        /\ Line(c) = stack[1].line

\* C17 amended: Immediate(), called directly from F, returns the record of
\* F's own frame: function F, F's file, and the line of the call when that
\* line is within 0..65535, 0 otherwise
C17_ImmediateIsCallingFrameUint16 ==
    ret.op = "Immediate" =>
        /\ c # Nil
        /\ FullFunction(c) = stack[1].fn
        /\ File(c) = stack[1].file
        /\ Line(c) = IF InUint16(stack[1].line) THEN stack[1].line ELSE 0

C17_Witness ==
    /\ ret.op = "Immediate"
    /\ c # Nil
    /\ FullFunction(c) = stack[1].fn
    /\ stack[1].fn # stack[2].fn
    /\ Line(c) = MaxUint16
    /\ stack[1].line = MaxUint16

\* C18 as stated: New(0) called directly from F returns what Immediate()
\* called directly from F returns, the record of F's own frame
C18_NewZeroSameAsImmediate ==
    (ret.op = "New" /\ ret.arg = 0) =>
        /\ c = NewOn(<<NewFrame, ImmediateFrame>> \o stack, 0)
        /\ c # Nil
        /\ FullFunction(c) = stack[1].fn

\* C19: after an UnmarshalJSON without error of an object with package P and
\* function F, FullFunction() is P.F when both are non-empty, F alone when P
\* is empty or omitted, and empty when F is empty or omitted; File() and
\* Line() are the file and line of the object
C19_RehydratedFullFunction ==
    Rehydrated =>
        LET P == DocString(data.package)
            F == DocString(data.function)
        IN  /\ FullFunction(c) = IF F = <<>> THEN <<>>
                                 ELSE IF P = <<>> THEN F
                                 ELSE P \o <<".">> \o F
            /\ File(c) = DocString(data.file)
            /\ Line(c) = DocInt(data.line)

C19_Witness ==
    /\ Rehydrated
    /\ data.package = <<>>
    /\ data.function = <<PartMyFunc>>
    /\ FullFunction(c) = PartMyFunc

\* C20: UnmarshalJSON on a present record returns an error exactly when the
\* input does not parse or its line is negative or above 65535; a line within
\* 0..65535 and an omitted line are accepted and stored; a line out of range
\* is never stored truncated or as 0
C20_ErrorIffUnparsableOrLineOutOfRange ==
    [][(ret'.op = "UnmarshalJSON" /\ c # Nil) =>
          LET bad == \/ data = Malformed
                     \/ ~InUint16(DocInt(data.line))
          IN  /\ ret'.val # "none" <=> bad
              /\ ~bad => c'.line = DocInt(data.line)
              /\ bad => c'.line = c.line]_vars

C20_Witness ==
    /\ ret.op = "UnmarshalJSON"
    /\ ret.val = "line"
    /\ data.line = <<MaxUint16 + 1>>
    /\ c # Nil
    /\ c.line = OuterFrame(1).line


-----------------------------------------------------------------------------
(* Reference definitions for the claims on MarshalJSON, LogValue and reads *)

\* the place of a key in the order file, line, function, package
KeyRank(key) ==
    CASE key = "file" -> 1
      [] key = "line" -> 2
      [] key = "function" -> 3
      [] key = "package" -> 4
      [] OTHER -> 0

\* the keys of the members come in the order file, line, function, package,
\* none twice
InKeyOrder(members) ==
    /\ \A i \in 1..Len(members) : KeyRank(members[i].key) > 0
    /\ \A i, j \in 1..Len(members) :
          i < j => KeyRank(members[i].key) < KeyRank(members[j].key)

HasKey(members, key) == \E i \in 1..Len(members) : members[i].key = key

MemberOf(members, key) == members[CHOOSE i \in 1..Len(members) : members[i].key = key]

\* the read operations of the Caller interface
ReadOps ==
    {"Valid", "File", "Line", "Location", "ShortLocation", "String", "Function",
     "FullFunction", "Package", "PackageName", "Equal", "MarshalJSON", "LogValue"}

StringReadOps ==
    {"File", "Location", "ShortLocation", "String", "Function", "FullFunction",
     "Package", "PackageName"}

\* what the read op returns on record r (arg names Equal's argument)
ResultOf(op, arg, r) ==
    CASE op = "Valid" -> Valid(r)
      [] op = "File" -> File(r)
      [] op = "Line" -> Line(r)
      [] op = "Location" -> Location(r)
      [] op = "ShortLocation" -> ShortLocation(r)
      [] op = "String" -> String(r)
      [] op = "Function" -> Function(r)
      [] op = "FullFunction" -> FullFunction(r)
      [] op = "Package" -> Package(r)
      [] op = "PackageName" -> PackageName(r)
      [] op = "Equal" -> Equal(r, OtherOf(r, arg))
      [] op = "MarshalJSON" -> MarshalJSON(r)
      [] op = "LogValue" -> LogValue(r)

\* the receivers an UnmarshalJSON may be applied to
Receivers ==
    {callerInfo(stack[i].file, stack[i].line, stack[i].fn) : i \in 1..Len(stack)}
    \cup {ZeroRecord}

-----------------------------------------------------------------------------
\* C21: MarshalJSON of a present record writes an object with, in the order
\* file, line, function, package, exactly the keys whose value is not empty
\* or 0, function being Function() and package Package(); a nil record
\* marshals to null
C21_MarshalOmitsEmpty ==
    ret.op = "MarshalJSON" =>
        IF c = Nil THEN ret.val = JSONNull
        ELSE LET m == ret.val.members
             IN  /\ ~ret.val.null
                 /\ InKeyOrder(m)
                 /\ HasKey(m, "file") <=> File(c) # <<>>
                 /\ HasKey(m, "line") <=> Line(c) # 0
                 /\ HasKey(m, "function") <=> Function(c) # <<>>
                 /\ HasKey(m, "package") <=> Package(c) # <<>>
                 /\ HasKey(m, "file") =>
                       JSONUnquote(MemberOf(m, "file").text) = File(c)
                 /\ HasKey(m, "line") =>
                       IsDecimalOf(MemberOf(m, "line").text, Line(c))
                 /\ HasKey(m, "function") =>
                       JSONUnquote(MemberOf(m, "function").text) = Function(c)
                 /\ HasKey(m, "package") =>
                       JSONUnquote(MemberOf(m, "package").text) = Package(c)

C21_Witness ==
    /\ ret.op = "MarshalJSON"
    /\ c # Nil
    /\ c.fn = NameRepoFunc
    /\ Len(ret.val.members) = 4
    /\ MemberOf(ret.val.members, "function").text = SliceFrom(NameRepoFunc, 21)

C23_LogValueOmitsEmpty ==
    ret.op = "LogValue" =>
        IF ~Valid(c) THEN ret.val = EmptyValue
        ELSE LET a == ret.val.attrs
             IN  /\ ~ret.val.empty
                 /\ InKeyOrder(a)
                 /\ HasKey(a, "file") /\ MemberOf(a, "file").val = File(c)
                 /\ HasKey(a, "line") <=> Line(c) > 0
                 /\ HasKey(a, "function") <=> Function(c) # <<>>
                 /\ HasKey(a, "package") <=> Package(c) # <<>>
                 /\ HasKey(a, "line") => MemberOf(a, "line").val = Line(c)
                 /\ HasKey(a, "function") =>
                       MemberOf(a, "function").val = Function(c)
                 /\ HasKey(a, "package") =>
                       MemberOf(a, "package").val = Package(c)

C23_Witness ==
    /\ ret.op = "LogValue"
    /\ c # Nil
    /\ c.file = <<>>
    /\ c.line > 0
    /\ Function(c) # <<>>
    /\ ret.val = EmptyValue

\* C24 as stated: once New, Immediate or NewFromPC has returned a record, no
\* operation of the Caller interface invoked on it, UnmarshalJSON included,
\* changes its file, line, qualified function or separator index
C24_ImmutableAfterConstruction ==
    [][(c # Nil /\ ret'.op \notin {"New", "Immediate", "NewFromPC"}) =>
          c' = c]_vars

\* C25: every read accessor is total on an absent record: Valid() is false,
\* the string accessors return the empty string, Line() returns 0 and
\* LogValue() the empty value
C25_AccessorsTotalOnNil ==
    c = Nil =>
        /\ ~Valid(c)
        /\ \A op \in StringReadOps : ResultOf(op, "nil", c) = <<>>
        /\ Line(c) = 0
        /\ LogValue(c) = EmptyValue
        /\ ret.op \in StringReadOps => ret.val = <<>>
        /\ ret.op = "Valid" => ret.val = FALSE
        /\ ret.op = "Line" => ret.val = 0
        /\ ret.op = "LogValue" => ret.val = EmptyValue

C25_Witness ==
    /\ c = Nil
    /\ ret.op = "PackageName"
    /\ ret.val = <<>>

\* C26: the read operations leave file, line, fn and dotIdx of the receiver
\* unchanged and return a value that is a function of the record's fields
\* only, so repeating them in any order returns the same results
C26_ReadsArePure ==
    [][ret'.op \in ReadOps =>
          /\ c' = c
          /\ ret'.val = ResultOf(ret'.op, ret'.arg, c)]_vars

C26_Witness ==
    /\ ret.op = "LogValue"
    /\ c # Nil
    /\ c.dotIdx # functionNameIndex(c.fn)
    /\ ret.val = LogValue(c)

\* C27 as stated: an UnmarshalJSON call that returns an error leaves file,
\* line, fn and dotIdx of the receiver as they were before the call
C27_ErrorLeavesReceiver ==
    [][(ret'.op = "UnmarshalJSON" /\ ret'.val \in {"syntax", "line"}) =>
          c' = c]_vars

\* C28: after an UnmarshalJSON that returns no error the record depends on the
\* document only: any receiver ends with the same file, line, fn and dotIdx,
\* an omitted key leaving the field empty or 0
C28_RehydratedFromDocumentOnly ==
    Rehydrated =>
        /\ \A r \in Receivers :
              LET res == UnmarshalJSONOn(r, data)
              IN  res.err = "none" /\ res.c = c
        /\ data.file = <<>> => c.file = <<>>
        /\ data.line = <<>> => c.line = 0
        /\ data.function = <<>> => c.fn = <<>>
        /\ data.package = <<>> => Package(c) = <<>>

C28_Witness ==
    /\ Rehydrated
    /\ data.file = <<>>
    /\ data.line = <<>>
    /\ c.file = <<>>
    /\ c.line = 0

\* C29 as stated: after an UnmarshalJSON without error of an object with
\* function F and package P, Function() = F and Package() = P
C29_AccessorsReadBack ==
    Rehydrated =>
        /\ Function(c) = DocString(data.function)
        /\ Package(c) = DocString(data.package)

\* C30: for every present record with dotIdx = functionNameIndex(fn) >= 0,
\* Package() + "." + Function() = FullFunction(), Function() holds no '/',
\* and -1 <= dotIdx < len(fn)
C30_ViewsPartitionName ==
    (c # Nil /\ c.dotIdx = functionNameIndex(c.fn) /\ c.dotIdx >= 0) =>
        /\ Package(c) \o <<".">> \o Function(c) = FullFunction(c)
        /\ ~HasChar(Function(c), "/")
        /\ -1 <= c.dotIdx /\ c.dotIdx < Len(c.fn)

C30_Witness ==
    /\ c # Nil
    /\ c.fn = NameRepoFunc
    /\ c.dotIdx = functionNameIndex(c.fn)
    /\ c.dotIdx >= 0
    /\ Package(c) \o <<".">> \o Function(c) = NameRepoFunc
    /\ ret.op = "Function"

====
